---- MODULE Spec2Model ----
(***************************************************************************)
(* A model of placeholder.py: the validators, the ratio-to-pixel resolver, *)
(* the cache check, the renderer and the command entry point, with the     *)
(* output directory as the only state shared between invocations.          *)
(*                                                                         *)
(* Strings are sequences of one-character strings, so that the regular     *)
(* expression, str.replace and int(..., 16) are computed character by      *)
(* character.  Python's None is the empty tuple and a present value v is   *)
(* the one-element tuple <<v>>.                                            *)
(***************************************************************************)
EXTENDS Integers, Sequences, FiniteSets, TLC

VARIABLES
    pc,           \* per process: where the invocation stands
    args,         \* per process: the parsed command line (None when not running)
    width,        \* per process: main's local width  (None until resolved)
    height,       \* per process: main's local height (None until resolved)
    gen,          \* per process: the ImageGenerator object (None until constructed)
    result,       \* per process: what main returned (None, or <<1>>)
    exit_status,  \* per process: the exit status of the process (None while it runs)
    snap,         \* per process: the output location as it was when the invocation began
    dirExists,    \* <out>/placeholders is a directory
    files,        \* the regular files of <out>/placeholders: name -> content
    runs,         \* invocations begun so far
    call,         \* the arguments of the pure function under test
    ret           \* its return value (None until it has run)

vars == <<pc, args, width, height, gen, result, exit_status, snap,
          dirExists, files, runs, call, ret>>

mainVars == <<pc, args, width, height, gen, result, exit_status, snap,
              dirExists, files, runs>>

----------------------------------------------------------------------------
(* Optional values *)

None == <<>>

Some(v) == <<v>>

IsNone(o) == Len(o) = 0

Get(o) == o[1]

----------------------------------------------------------------------------
(* BOUNDS, lines 23-27 *)

WidthLower == 32

WidthUpper == 4000

HeightLower == 32

HeightUpper == 4000

RatioLower == 1

RatioUpper == 30

BoundTuple(lo, up) == [lower |-> lo, upper |-> up]

BOUNDS ==
    [width  |-> BoundTuple(WidthLower, WidthUpper),
     height |-> BoundTuple(HeightLower, HeightUpper),
     ratio  |-> BoundTuple(RatioLower, RatioUpper)]

DefaultBase == 100

----------------------------------------------------------------------------
(* Validators *)

validate_range_lower_only(value, bounds) == value >= bounds.lower

\* validate_range, lines 58-69
validate_range(value, bounds) ==
    value >= bounds.lower /\ value <= bounds.upper

validate_ratio_any(value) ==
    /\ ~IsNone(value)
    /\ Len(Get(value)) = 2
    /\ \E i \in 1..Len(Get(value)) : validate_range(Get(value)[i], BOUNDS.ratio)

\* validate_ratio, lines 30-35.  value is None or Some(list of integers).
validate_ratio(value) ==
    IF IsNone(value) THEN FALSE                       \* not isinstance(value, list)
    ELSE IF ~(Len(Get(value)) = 2) THEN FALSE
    ELSE \A i \in 1..Len(Get(value)) : validate_range(Get(value)[i], BOUNDS.ratio)

HexChars ==
    {"0", "1", "2", "3", "4", "5", "6", "7", "8", "9",
     "a", "b", "c", "d", "e", "f", "A", "B", "C", "D", "E", "F"}

NL == "\n"

\* [0-9a-fA-F]{n} at position pos (1-based) of text
HexRun(text, pos, n) ==
    /\ pos + n - 1 <= Len(text)
    /\ \A i \in pos..(pos + n - 1) : text[i] \in HexChars

\* $ without re.MULTILINE: the end of the string, or just before a newline
\* that ends the string
AtDollar(text, pos) ==
    \/ pos = Len(text) + 1
    \/ pos = Len(text) /\ text[pos] = NL

\* validate_hex_color, line 55: re.match(r"^#(?:[0-9a-fA-F]{3,4}){1,2}$", value),
\* used for its truth value.  g1 and g2 are the lengths the group matches on
\* its first and (optional) second repetition.
validate_hex_color(value) ==
    /\ Len(value) >= 1
    /\ value[1] = "#"
    /\ \E g1 \in 3..4 :
          /\ HexRun(value, 2, g1)
          /\ \/ AtDollar(value, 2 + g1)
             \/ \E g2 \in 3..4 :
                   /\ HexRun(value, 2 + g1, g2)
                   /\ AtDollar(value, 2 + g1 + g2)

----------------------------------------------------------------------------
(* Dimension resolver *)

ShrinkAlways(base_dimmention, component, upper) == upper \div component

\* one "if base * component > upper: base = upper // component", lines 75-78
Shrink(base_dimmention, component, upper) ==
    IF base_dimmention * component > upper
    THEN upper \div component
    ELSE base_dimmention

ResolvedBaseNoCarry(ratio, base_dimmention) ==
    Shrink(base_dimmention, ratio.height, BOUNDS.height.upper)

\* the value of base_dimmention at line 79
ResolvedBase(ratio, base_dimmention) ==
    Shrink(Shrink(base_dimmention, ratio.width, BOUNDS.width.upper),
           ratio.height, BOUNDS.height.upper)

\* dimmentions_from_ratio, lines 72-79
dimmentions_from_ratio(ratio, base_dimmention) ==
    LET b == ResolvedBase(ratio, base_dimmention)
    IN  <<b * ratio.width, b * ratio.height>>

RatioTuple(w, h) == [width |-> w, height |-> h]

----------------------------------------------------------------------------
(* Colour conversion, line 214 and lines 104-106 *)

HexVal(c) ==
    CASE c = "0" -> 0  [] c = "1" -> 1  [] c = "2" -> 2  [] c = "3" -> 3
      [] c = "4" -> 4  [] c = "5" -> 5  [] c = "6" -> 6  [] c = "7" -> 7
      [] c = "8" -> 8  [] c = "9" -> 9
      [] c \in {"a", "A"} -> 10  [] c \in {"b", "B"} -> 11
      [] c \in {"c", "C"} -> 12  [] c \in {"d", "D"} -> 13
      [] c \in {"e", "E"} -> 14  [] c \in {"f", "F"} -> 15

RECURSIVE ReplaceHash(_)
\* value.replace("#", "0x"): every "#" becomes the two characters "0", "x"
ReplaceHash(value) ==
    IF Len(value) = 0 THEN <<>>
    ELSE (IF Head(value) = "#" THEN <<"0", "x">> ELSE <<Head(value)>>)
         \o ReplaceHash(Tail(value))

RECURSIVE Strip(_)
\* int() ignores surrounding whitespace; the only whitespace modelled is "\n"
Strip(text) ==
    IF Len(text) > 0 /\ Head(text) = NL THEN Strip(Tail(text))
    ELSE IF Len(text) > 0 /\ text[Len(text)] = NL
         THEN Strip(SubSeq(text, 1, Len(text) - 1))
         ELSE text

RECURSIVE FoldHex(_, _)
FoldHex(digits, acc) ==
    IF Len(digits) = 0 THEN acc
    ELSE FoldHex(Tail(digits), acc * 16 + HexVal(Head(digits)))

\* int(text, 16) for a text of the form 0x<hex digits>, which is what every
\* colour accepted by validate_hex_color becomes after ReplaceHash
IntBase16(text) ==
    LET t == Strip(text)
        d == IF Len(t) >= 2 /\ t[1] = "0" /\ t[2] \in {"x", "X"}
             THEN SubSeq(t, 3, Len(t)) ELSE t
    IN  FoldHex(d, 0)

\* int(args.color.replace("#", "0x"), 16), line 214
ColorInt(color) == IntBase16(ReplaceHash(color))

\* RGBTuple(r=(color >> 16) & 0xFF, g=(color >> 8) & 0xFF, b=color & 0xFF),
\* lines 104-106
RGBTuple(color) ==
    [r |-> (color \div 65536) % 256,
     g |-> (color \div 256) % 256,
     b |-> color % 256]

\* inverted_color, lines 110-116
inverted_color(color) ==
    [r |-> 255 - color.r, g |-> 255 - color.g, b |-> 255 - color.b]

\* ImageGenerator.__init__, lines 95-108
ImageGenerator(w, h, color) ==
    [width |-> w, height |-> h, color |-> RGBTuple(color), image |-> None]

\* _setup_frame, _setup_cross and _smoothen_image, lines 119-121 and 124-141:
\* a bitmap of the generator's size filled with its colour, an X in the
\* inverted colour of stroke 2 (3 from width 1000 on); the blurred copy that
\* filter() returns is dropped, so the bitmap is left as drawn
RenderImage(g) ==
    [width  |-> g.width,
     height |-> g.height,
     fill   |-> g.color,
     cross  |-> inverted_color(g.color),
     stroke |-> IF g.width < 1000 THEN 2 ELSE 3]

FileNamePerProcess(w, h, p) == <<w, h, p>>

\* f"{width}_x_{height}.jpg", lines 89 and 144-146: the name is made of the two
\* dimensions alone, whichever process p makes it
FileName(w, h, p) == <<w, h>>

placeholder_exists_never(w, h, p) == FALSE

\* placeholder_exists, lines 82-91
placeholder_exists(w, h, p) ==
    IF ~dirExists THEN FALSE
    ELSE FileName(w, h, p) \in DOMAIN files

----------------------------------------------------------------------------
(* Bounds and inputs *)

MaxRuns == 2        \* invocations begun in one behaviour

MaxLen == 9         \* length of the texts given to validate_hex_color

MaxRatioLen == 3    \* length of the lists given to validate_ratio

MaxSmall == 3       \* the ratio components and bases 1..MaxSmall of the resolver

Procs == {1, 2}

SeqProcs == {1}

Str3 == <<"#", "1", "2", "3">>

Str4 == <<"#", "1", "2", "3", "4">>

Str6 == <<"#", "1", "1", "2", "2", "3", "3">>

Str8 == <<"#", "1", "1", "2", "2", "3", "3", "4", "4">>

Str2 == <<"#", "1", "2">>

StrNoHash == <<"1", "2", "3">>

\* the command lines of the sequential runs: args.option, args.width,
\* args.height, args.ratio, args.color as argparse leaves them (lines 155-172)
SizeArgs ==
    [option : {"size"},
     width  : {None, Some(0), Some(31), Some(32), Some(4000), Some(4001)},
     height : {None, Some(31), Some(4000), Some(4001)},
     ratio  : {None, Some(<<0, 0>>)},
     color  : {Str3, Str4, Str6, Str8, Str2, StrNoHash}]

RatioArgs ==
    [option : {"ratio"},
     width  : {None, Some(10)},
     height : {None},
     ratio  : {None, Some(<<>>), Some(<<16>>), Some(<<16, 9, 1>>),
               Some(<<16, 9>>), Some(<<30, 1>>), Some(<<31, 1>>),
               Some(<<1, 31>>), Some(<<0, 1>>), Some(<<-1, 5>>),
               Some(<<200, 1>>), Some(<<4001, 1>>)},
     color  : {Str3, Str4, Str6, Str8, Str2, StrNoHash}]

WideArgs == SizeArgs \cup RatioArgs

\* the command lines of the concurrent runs
RaceArgs ==
    [option : {"size"},
     width  : {Some(32), Some(4000)},
     height : {Some(4000)},
     ratio  : {None},
     color  : {Str3, Str6, Str2}]

HexAlphabet == {"#", "a", "g", NL}

HexTexts == UNION {[1..n -> HexAlphabet] : n \in 0..MaxLen}

RatioElems == {-1, 0, 1, 2, 30, 31}

RatioLists ==
    {None} \cup {Some(l) : l \in UNION {[1..n -> RatioElems] : n \in 0..MaxRatioLen}}

ResolverComponents == (1..MaxSmall) \cup {9, 16, 30, 31, 40, 41, 133, 3999, 4000, 4001}

ResolverBases == (1..MaxSmall) \cup {100, 133, 134, 4000, 4001}

ResolverCalls ==
    {[ratio |-> RatioTuple(rw, rh), base |-> b] :
        rw \in ResolverComponents, rh \in ResolverComponents, b \in ResolverBases}

----------------------------------------------------------------------------
(* The command entry point *)

\* Python truth of an optional integer: None and 0 are false
Truthy(o) == ~IsNone(o) /\ Get(o) # 0

\* the match statement, lines 174-199: None when main returns 1 there,
\* otherwise the local (width, height)
ResolveDimensions(a) ==
    IF a.option = "size" THEN
        IF ~(Truthy(a.width) /\ Truthy(a.height)) THEN None
        ELSE IF ~(/\ validate_range(Get(a.width), BOUNDS.width)
                  /\ validate_range(Get(a.height), BOUNDS.height)) THEN None
        ELSE Some(<<Get(a.width), Get(a.height)>>)
    ELSE IF a.option = "ratio" THEN
        IF ~validate_ratio(a.ratio) THEN None
        ELSE Some(dimmentions_from_ratio(
                      RatioTuple(Get(a.ratio)[1], Get(a.ratio)[2]), DefaultBase))
    ELSE None

Running(p) == pc[p] \notin {"idle", "exited"}

\* the process starts and argparse fills args, lines 219-228 and 155-172
Start(p, a) ==
    /\ ~Running(p)
    /\ runs < MaxRuns
    /\ runs' = runs + 1
    /\ pc' = [pc EXCEPT ![p] = "main"]
    /\ args' = [args EXCEPT ![p] = Some(a)]
    /\ width' = [width EXCEPT ![p] = None]
    /\ height' = [height EXCEPT ![p] = None]
    /\ gen' = [gen EXCEPT ![p] = None]
    /\ result' = [result EXCEPT ![p] = None]
    /\ exit_status' = [exit_status EXCEPT ![p] = None]
    /\ snap' = [snap EXCEPT ![p] = Some([dir |-> dirExists, files |-> files])]
    /\ UNCHANGED <<dirExists, files, call, ret>>

\* the outcome of lines 174-203 for process p: it returns 1, or goes on to
\* line 205 with width and height set
ValidateOutcome(p) ==
    LET a == Get(args[p])
        d == ResolveDimensions(a)
    IN  IF IsNone(d) THEN
            /\ result' = [result EXCEPT ![p] = Some(1)]
            /\ pc' = [pc EXCEPT ![p] = "returned"]
            /\ UNCHANGED <<width, height>>
        ELSE
            /\ width' = [width EXCEPT ![p] = Some(Get(d)[1])]
            /\ height' = [height EXCEPT ![p] = Some(Get(d)[2])]
            /\ IF ~validate_hex_color(a.color) THEN
                   /\ result' = [result EXCEPT ![p] = Some(1)]
                   /\ pc' = [pc EXCEPT ![p] = "returned"]
               ELSE
                   /\ pc' = [pc EXCEPT ![p] = "mkdir"]
                   /\ UNCHANGED result

ValidateAfterMkdir(p) ==
    /\ pc[p] = "main"
    /\ ValidateOutcome(p)
    /\ dirExists' = TRUE
    /\ UNCHANGED <<args, gen, exit_status, snap, files, runs, call, ret>>

\* lines 174-203
Validate(p) ==
    /\ pc[p] = "main"
    /\ ValidateOutcome(p)
    /\ UNCHANGED <<args, gen, exit_status, snap, dirExists, files, runs, call, ret>>

\* (args.out / "placeholders").mkdir(exist_ok=True, parents=True), line 205
Mkdir(p) ==
    /\ pc[p] = "mkdir"
    /\ dirExists' = TRUE
    /\ pc' = [pc EXCEPT ![p] = "check"]
    /\ UNCHANGED <<args, width, height, gen, result, exit_status, snap,
                   files, runs, call, ret>>

\* lines 207-211
CheckCache(p) ==
    /\ pc[p] = "check"
    /\ IF placeholder_exists(Get(width[p]), Get(height[p]), p)
       THEN pc' = [pc EXCEPT ![p] = "returned"]        \* return (None)
       ELSE pc' = [pc EXCEPT ![p] = "render"]
    /\ UNCHANGED <<args, width, height, gen, result, exit_status, snap,
                   dirExists, files, runs, call, ret>>

\* lines 213-216 up to the save: the generator is built and start() draws
\* the bitmap in memory (lines 119-121)
Render(p) ==
    /\ pc[p] = "render"
    /\ LET g == ImageGenerator(Get(width[p]), Get(height[p]),
                               ColorInt(Get(args[p]).color))
       IN  gen' = [gen EXCEPT ![p] = Some([g EXCEPT !.image = Some(RenderImage(g))])]
    /\ pc' = [pc EXCEPT ![p] = "save"]
    /\ UNCHANGED <<args, width, height, result, exit_status, snap,
                   dirExists, files, runs, call, ret>>

\* self.image.save(_save_path, format="jpeg"), line 147: the file of that
\* name is created, or replaced when it exists
Write(name, image) ==
    [n \in DOMAIN files \cup {name} |-> IF n = name THEN image ELSE files[n]]

\* _save_image, lines 122 and 143-148; start() and main then return None
Save(p) ==
    /\ pc[p] = "save"
    /\ LET image == Get(Get(gen[p]).image)
       IN  files' = Write(FileName(image.width, image.height, p), image)
    /\ pc' = [pc EXCEPT ![p] = "returned"]
    /\ UNCHANGED <<args, width, height, gen, result, exit_status, snap,
                   dirExists, runs, call, ret>>

\* the __main__ block, line 228: main() is called as a statement, its return
\* value is dropped and the interpreter ends with status 0
Exit(p) ==
    /\ pc[p] = "returned"
    /\ exit_status' = [exit_status EXCEPT ![p] = Some(0)]
    /\ pc' = [pc EXCEPT ![p] = "exited"]
    /\ args' = [args EXCEPT ![p] = None]
    /\ width' = [width EXCEPT ![p] = None]
    /\ height' = [height EXCEPT ![p] = None]
    /\ gen' = [gen EXCEPT ![p] = None]
    /\ snap' = [snap EXCEPT ![p] = None]
    /\ UNCHANGED <<result, dirExists, files, runs, call, ret>>

InitMain ==
    /\ pc = [p \in Procs |-> "idle"]
    /\ args = [p \in Procs |-> None]
    /\ width = [p \in Procs |-> None]
    /\ height = [p \in Procs |-> None]
    /\ gen = [p \in Procs |-> None]
    /\ result = [p \in Procs |-> None]
    /\ exit_status = [p \in Procs |-> None]
    /\ snap = [p \in Procs |-> None]
    /\ dirExists = FALSE
    /\ files = <<>>
    /\ runs = 0

Init ==
    /\ InitMain
    /\ call = None
    /\ ret = None

\* invocations one after the other
Next ==
    \E p \in SeqProcs :
        \/ \E a \in WideArgs : Start(p, a)
        \/ Validate(p)
        \/ Mkdir(p)
        \/ CheckCache(p)
        \/ Render(p)
        \/ Save(p)
        \/ Exit(p)

Spec == Init /\ [][Next]_vars

\* invocations that overlap in time
NextConc ==
    \E p \in Procs :
        \/ \E a \in RaceArgs : Start(p, a)
        \/ Validate(p)
        \/ Mkdir(p)
        \/ CheckCache(p)
        \/ Render(p)
        \/ Save(p)
        \/ Exit(p)

SpecConc == Init /\ [][NextConc]_vars

----------------------------------------------------------------------------
(* The pure functions, each applied to one drawn input *)

InitHex ==
    /\ InitMain
    /\ call \in {Some(t) : t \in HexTexts}
    /\ ret = None

ApplyValidateHexColor ==
    /\ IsNone(ret)
    /\ ret' = Some(validate_hex_color(Get(call)))
    /\ UNCHANGED <<call, mainVars>>

SpecHex == InitHex /\ [][ApplyValidateHexColor]_vars

InitRatio ==
    /\ InitMain
    /\ call \in {Some(l) : l \in RatioLists}
    /\ ret = None

ApplyValidateRatio ==
    /\ IsNone(ret)
    /\ ret' = Some(validate_ratio(Get(call)))
    /\ UNCHANGED <<call, mainVars>>

SpecRatio == InitRatio /\ [][ApplyValidateRatio]_vars

InitResolver ==
    /\ InitMain
    /\ call \in {Some(c) : c \in ResolverCalls}
    /\ ret = None

ApplyDimmentionsFromRatio ==
    /\ IsNone(ret)
    /\ ret' = Some(dimmentions_from_ratio(Get(call).ratio, Get(call).base))
    /\ UNCHANGED <<call, mainVars>>

SpecResolver == InitResolver /\ [][ApplyDimmentionsFromRatio]_vars

----------------------------------------------------------------------------
(* Properties *)

InRange(v, lo, up) == lo <= v /\ v <= up

\* the invocation of p has resolved its dimensions, and the file of those
\* dimensions was in the directory when the invocation began
HadFile(p) ==
    /\ ~IsNone(snap[p])
    /\ ~IsNone(width[p])
    /\ ~IsNone(height[p])
    /\ <<Get(width[p]), Get(height[p])>> \in DOMAIN Get(snap[p]).files

\* C1: whenever main ended with a validation failure (it returned 1), the
\* process exits with a non-zero status, of value 1.
C1_ValidationFailureExitsNonZero ==
    \A p \in Procs :
        (pc[p] = "exited" /\ result[p] = Some(1)) => exit_status[p] = Some(1)

\* C2 as stated: in sequential runs, an invocation whose resolved dimensions
\* already had a file when it began performs no write, does not render, and
\* ends successfully (main returns None), whatever colour it requests.
C2_CachedInvocationSucceedsAnyColor ==
    \A p \in Procs :
        (pc[p] = "returned" /\ HadFile(p)) =>
            /\ files = Get(snap[p]).files
            /\ IsNone(gen[p])
            /\ IsNone(result[p])

\* C2 as amended: in sequential runs, an invocation whose resolved dimensions
\* already had a file when it began performs no write and does not render; it
\* ends successfully exactly when validate_hex_color accepts its colour and
\* returns 1 otherwise; and throughout any invocation every artifact that
\* existed when it began is still there with the same content.
C2_CachedInvocationIsNoOp ==
    \A p \in Procs :
        /\ (pc[p] = "returned" /\ HadFile(p)) =>
               /\ files = Get(snap[p]).files
               /\ IsNone(gen[p])
               /\ IsNone(result[p]) <=> validate_hex_color(Get(args[p]).color)
        /\ Running(p) =>
               \A n \in DOMAIN Get(snap[p]).files :
                   n \in DOMAIN files /\ files[n] = Get(snap[p]).files[n]

\* C2 witness: a second invocation has ended successfully on dimensions whose
\* file was written by an earlier one with another colour, and the file still
\* holds the earlier fill.
C2_Witness ==
    \E p \in Procs :
        /\ pc[p] = "returned"
        /\ HadFile(p)
        /\ IsNone(result[p])
        /\ validate_hex_color(Get(args[p]).color)
        /\ files[<<Get(width[p]), Get(height[p])>>].fill
               # RGBTuple(ColorInt(Get(args[p]).color))

\* C3: when main has ended with a validation error, the output location is
\* as it was when the invocation began (no directory created, no file
\* written) and no generator was built or started.
C3_ValidationFailureTouchesNothing ==
    \A p \in Procs :
        (pc[p] = "returned" /\ result[p] = Some(1)) =>
            /\ dirExists = Get(snap[p]).dir
            /\ files = Get(snap[p]).files
            /\ IsNone(gen[p])

\* C3 witness: an invocation with valid dimensions and a malformed colour has
\* ended with 1 while the placeholders directory still does not exist.
C3_Witness ==
    \E p \in Procs :
        /\ pc[p] = "returned"
        /\ result[p] = Some(1)
        /\ ~IsNone(width[p])
        /\ ~validate_hex_color(Get(args[p]).color)
        /\ ~dirExists

\* the ratio of a is a list of two integers whose resolved dimensions are
\* not both in [32, 4000]
ResolvesOutside(a) ==
    /\ ~IsNone(a.ratio)
    /\ Len(Get(a.ratio)) = 2
    /\ LET d == dimmentions_from_ratio(
                    RatioTuple(Get(a.ratio)[1], Get(a.ratio)[2]), DefaultBase)
       IN  ~(/\ InRange(d[1], WidthLower, WidthUpper)
             /\ InRange(d[2], HeightLower, HeightUpper))

\* C5: every generator built by main, in size mode and in ratio mode, has a
\* width and a height in [32, 4000]; and a ratio-mode invocation whose
\* resolved dimensions are outside [32, 4000] does not get past validation:
\* it ends with 1 and builds no generator.
C5_RendererDimensionsInBounds ==
    \A p \in Procs :
        /\ ~IsNone(gen[p]) =>
               /\ InRange(Get(gen[p]).width, WidthLower, WidthUpper)
               /\ InRange(Get(gen[p]).height, HeightLower, HeightUpper)
        /\ (/\ pc[p] \in {"mkdir", "check", "render", "save", "returned"}
            /\ Get(args[p]).option = "ratio"
            /\ ResolvesOutside(Get(args[p]))) =>
               /\ pc[p] = "returned"
               /\ result[p] = Some(1)
               /\ IsNone(gen[p])

\* C5 witness: a ratio-mode invocation whose ratio resolves outside
\* [32, 4000] has ended with 1, after an earlier invocation was rendered.
C5_Witness ==
    \E p \in Procs :
        /\ pc[p] = "returned"
        /\ Get(args[p]).option = "ratio"
        /\ ResolvesOutside(Get(args[p]))
        /\ result[p] = Some(1)
        /\ DOMAIN files # {}

\* the channel written by the two hex digits at positions i and i+1 of text
Byte(text, i) == 16 * HexVal(text[i]) + HexVal(text[i + 1])

\* C8: the fill of every generator comes from a 24-bit integer, each channel
\* is in [0, 255], '#RRGGBBAA' gets the fill (RR, GG, BB) that '#RRGGBB'
\* gets, and '#RGBA' gets the fill that '#RGB' gets.
C8_AlphaDigitsIgnored ==
    \A p \in Procs :
        ~IsNone(gen[p]) =>
            LET c == Get(args[p]).color
                fill == Get(gen[p]).color
            IN  /\ ColorInt(c) < 16777216
                /\ fill.r \in 0..255 /\ fill.g \in 0..255 /\ fill.b \in 0..255
                /\ Len(c) = 9 =>
                       /\ fill = [r |-> Byte(c, 2), g |-> Byte(c, 4), b |-> Byte(c, 6)]
                       /\ fill = RGBTuple(ColorInt(SubSeq(c, 1, 7)))
                /\ Len(c) = 5 => fill = RGBTuple(ColorInt(SubSeq(c, 1, 4)))

\* C10: in overlapping runs no two files of the directory are for the same
\* dimension pair, and each save leaves the file of its dimensions holding
\* the image of the process that saved, whether or not the file existed.
C10_LastWriterWins ==
    /\ [](\A n \in DOMAIN files : \A m \in DOMAIN files :
            (n[1] = m[1] /\ n[2] = m[2]) => n = m)
    /\ [][\A p \in Procs :
            (pc[p] = "save" /\ pc'[p] = "returned") =>
                LET image == Get(Get(gen[p]).image)
                IN  /\ <<image.width, image.height>> \in DOMAIN files'
                    /\ files'[<<image.width, image.height>>] = image]_vars

\* C10 witness: two invocations with the same dimensions and different
\* colours both began without the file, both rendered and saved, and the
\* file holds the image of one of them and not of the other.
C10_Witness ==
    \E p \in Procs : \E q \in Procs \ {p} :
        /\ pc[p] = "returned" /\ pc[q] = "returned"
        /\ ~IsNone(gen[p]) /\ ~IsNone(gen[q])
        /\ width[p] = width[q] /\ height[p] = height[q]
        /\ Get(args[p]).color # Get(args[q]).color
        /\ <<Get(width[p]), Get(height[p])>> \notin DOMAIN Get(snap[p]).files
        /\ <<Get(width[q]), Get(height[q])>> \notin DOMAIN Get(snap[q]).files
        /\ Cardinality(DOMAIN files) = 1
        /\ files[<<Get(width[q]), Get(height[q])>>] = Get(Get(gen[q]).image)
        /\ files[<<Get(width[p]), Get(height[p])>>] # Get(Get(gen[p]).image)

\* text is "#" followed by exactly 3, 4, 6 or 8 hexadecimal digits
IsHashHex(text) ==
    /\ Len(text) \in {4, 5, 7, 9}
    /\ text[1] = "#"
    /\ \A i \in 2..Len(text) : text[i] \in HexChars

\* C4: validate_hex_color(text) is true exactly when text is "#" followed by
\* 3, 4, 6 or 8 hexadecimal digits and nothing else.
C4_HexColorExactly3468 ==
    ~IsNone(ret) => (Get(ret) <=> IsHashHex(Get(call)))

\* C9: validate_ratio(p) is true exactly when p is a list of two elements
\* that both lie in [1, 30]; None and lists of other lengths are false.
C9_ValidateRatioIff ==
    ~IsNone(ret) =>
        LET v == Get(call)
        IN  Get(ret) <=>
                /\ ~IsNone(v)
                /\ Len(Get(v)) = 2
                /\ InRange(Get(v)[1], RatioLower, RatioUpper)
                /\ InRange(Get(v)[2], RatioLower, RatioUpper)

\* C9 witness: validate_ratio has accepted the list [1, 30].
C9_Witness ==
    /\ call = Some(Some(<<1, 30>>))
    /\ ret = Some(TRUE)

Min(a, b) == IF a <= b THEN a ELSE b

\* C6: for positive ratio components and a positive base the resolver
\* returns (b*rw, b*rh) for b = min(base, 4000 // rw, 4000 // rh); neither
\* dimension exceeds 4000 and width*rh = height*rw.
C6_ResolverSingleBase ==
    ~IsNone(ret) =>
        LET rw == Get(call).ratio.width
            rh == Get(call).ratio.height
            b  == Min(Get(call).base, Min(WidthUpper \div rw, HeightUpper \div rh))
            d  == Get(ret)
        IN  /\ d = <<b * rw, b * rh>>
            /\ d[1] <= WidthUpper
            /\ d[2] <= HeightUpper
            /\ d[1] * rh = d[2] * rw

\* C6 witness: ratio (41, 133) with base 100 is shrunk on the width to 97 and
\* then on the height to 30, giving (1230, 3990).
C6_Witness ==
    /\ call = Some([ratio |-> RatioTuple(41, 133), base |-> 100])
    /\ ret = Some(<<1230, 3990>>)

\* C7 as stated: ratio (30, 1) with base 100 returns (3990, 133), and ratio
\* (16, 9) with base 100 returns (1600, 900).
C7_Example30x1Shrinks ==
    ~IsNone(ret) =>
        /\ call = Some([ratio |-> RatioTuple(30, 1), base |-> 100])
               => ret = Some(<<3990, 133>>)
        /\ call = Some([ratio |-> RatioTuple(16, 9), base |-> 100])
               => ret = Some(<<1600, 900>>)

\* C7 as amended: ratio (30, 1) with base 100 returns (3000, 100) with no
\* shrink, since 3000 does not exceed 4000; the shrink to 4000 // 30 = 133,
\* giving (3990, 133), happens for a base above 133 such as 134; and ratio
\* (16, 9) with base 100 returns (1600, 900).
C7_Example30x1NoShrink ==
    ~IsNone(ret) =>
        /\ call = Some([ratio |-> RatioTuple(30, 1), base |-> 100])
               => ret = Some(<<3000, 100>>)
        /\ call = Some([ratio |-> RatioTuple(30, 1), base |-> 134])
               => ret = Some(<<3990, 133>>)
        /\ call = Some([ratio |-> RatioTuple(16, 9), base |-> 100])
               => ret = Some(<<1600, 900>>)

\* C7 witness: the resolver has returned (3000, 100) for ratio (30, 1) and
\* base 100.
C7_Witness ==
    /\ call = Some([ratio |-> RatioTuple(30, 1), base |-> 100])
    /\ ret = Some(<<3000, 100>>)

====
